---- MODULE Spec2Model ----
(***************************************************************************)
(* Random forest (bagged CART trees) of package randomForest.             *)
(*                                                                         *)
(* float64 values are modelled as binary floating-point numbers with a     *)
(* significand of Prec bits (round to nearest, ties to even) whose least   *)
(* exponent gives the subnormal spacing 2^-FracBits, so that every finite  *)
(* value is an integer multiple of 2^-FracBits; NaN, +Inf and -Inf are     *)
(* integers beyond the range of the finite values.                         *)
(* Go slices are 0-based; sequences here are 1-based, so a feature index f *)
(* of the program addresses element f + 1 of a row.                        *)
(***************************************************************************)
EXTENDS Integers, Sequences, FiniteSets, TLC

(* ---------------------------- bounds ----------------------------------- *)
Prec == 4
FracBits == 8
MaxRows == 3
MaxTrees == 2
MaxDepthBound == 2
MaxDraws == 4
MaxSelect == 6
MaxTruncated == 2
MaxShuffled == 4

\* the columns of the feature matrix (0-based) and the values a cell, a
\* class label and a regression target are drawn from
Columns == {0, 1}
FeatureValues == {0, 1}
ClassLabels == {0, 1}
Targets == {1, 7}

(* ------------------------------- state --------------------------------- *)
VARIABLES
    dataX, dataY, \* the caller's feature matrix X and label vector y
    rf,         \* the RandomForest: NumTrees, MaxDepth, MaxFeatures, Task, Trees
    trees,      \* the allocated DecisionTrees; a *DecisionTree is an index into trees
    heap,       \* the allocated Nodes; a *Node is an index into heap, Nil is nil
    last,       \* history: the buildTree call that has just returned, its arguments and result
    iTree,      \* the loop counter i of TrainRandomForest
    XSample, ySample,  \* the bootstrap sample of the current iteration
    stack,      \* the activations of buildTree, innermost last
    ret,        \* the value being returned by the innermost finished buildTree call
    status,     \* "constructed", "training", "trained" or "panic"
    err,        \* the run-time panic that ended the program, if any
    call,       \* history: the last PredictRandomForest call, sample and value returned
    randUsers,  \* history: the loop counters i of the trees whose build drew from the global rand source
    leafRows    \* history: for every Node of heap, the rows X the running TrainDecisionTree built it from as a leaf

vars == <<dataX, dataY, rf, trees, heap, last, iTree, XSample, ySample, stack, ret, status, err, call,
          randUsers, leafRows>>

(* ---------------------------- float64 ---------------------------------- *)
\* A finite value v is held as the integer v * 2^FracBits.
Unit == 2^FracBits

PosInf == 2^30
NegInf == -(2^30)
NaN == 2^30 + 1

IsNaN(x) == x = NaN
IsInf(x) == x = PosInf \/ x = NegInf
Sign(n) == IF n < 0 THEN -1 ELSE IF n > 0 THEN 1 ELSE 0
Abs(n) == IF n < 0 THEN -n ELSE n

\* (q * D + r) / D (0 <= r < D) rounded to an integer, to the even one on a
\* tie, in units of u
NearestOf(q, r, D, u) == (IF 2 * r > D \/ (2 * r = D /\ q % 2 = 1) THEN q + 1 ELSE q) * u

\* a/d (a >= 0, d > 0) rounded to Prec significant bits: the spacing 2^s of
\* the result is the least that leaves at most Prec bits
RECURSIVE RoundAt(_, _, _)
RoundAt(a, d, s) ==
    IF a < d * 2^(Prec + s)
    THEN NearestOf(a \div (d * 2^s), a % (d * 2^s), d * 2^s, 2^s)
    ELSE RoundAt(a, d, s + 1)

\* the float64 nearest to n/d (in units of 2^-FracBits, d > 0)
Round(n, d) == Sign(n) * RoundAt(Abs(n), d, 0)

\* float64(n) for an int n
Float(n) == Round(n * Unit, 1)

FAdd(x, b) ==
    IF IsNaN(x) \/ IsNaN(b) THEN NaN
    ELSE IF IsInf(x) THEN (IF IsInf(b) /\ b # x THEN NaN ELSE x)
    ELSE IF IsInf(b) THEN b
    ELSE Round(x + b, 1)

FNeg(x) == IF IsNaN(x) THEN NaN ELSE -x

FSub(x, b) == FAdd(x, FNeg(b))

FMul(x, b) ==
    IF IsNaN(x) \/ IsNaN(b) THEN NaN
    ELSE IF IsInf(x) \/ IsInf(b)
         THEN (IF x = 0 \/ b = 0 THEN NaN
               ELSE IF Sign(x) = Sign(b) THEN PosInf ELSE NegInf)
    ELSE Round(x * b, Unit)

FDiv(x, b) ==
    IF IsNaN(x) \/ IsNaN(b) THEN NaN
    ELSE IF IsInf(x) THEN (IF IsInf(b) THEN NaN
                           ELSE IF (x > 0) = (b >= 0) THEN PosInf ELSE NegInf)
    ELSE IF IsInf(b) THEN 0
    ELSE IF b = 0 THEN (IF x = 0 THEN NaN ELSE IF x > 0 THEN PosInf ELSE NegInf)
    ELSE Round(x * Unit * Sign(b), Abs(b))

\* x < b and x > b of float64: false whenever an operand is NaN
FLt(x, b) == ~IsNaN(x) /\ ~IsNaN(b) /\ x < b

FGt(x, b) == FLt(b, x)
(* ------------------------- slices and maps ----------------------------- *)
Range(s) == {s[k] : k \in 1..Len(s)}

Count(s, v) == Cardinality({k \in 1..Len(s) : s[k] = v})

\* every order in which a range loop may visit the keys of a map
Orders(keys) ==
    {o \in [1..Cardinality(keys) -> keys] : \A j, k \in DOMAIN o : j # k => o[j] # o[k]}

\* the elements of s at the indices idx, in order
RECURSIVE Pick(_, _, _)
Pick(s, idx, k) ==
    IF k > Len(s) THEN <<>>
    ELSE (IF k \in idx THEN <<s[k]>> ELSE <<>>) \o Pick(s, idx, k + 1)

\* sort.Float64s
RECURSIVE Insert(_, _)
Insert(v, s) ==
    IF s = <<>> THEN <<v>>
    ELSE IF FLt(Head(s), v) THEN <<Head(s)>> \o Insert(v, Tail(s))
    ELSE <<v>> \o s

RECURSIVE SortFloat64s(_)
SortFloat64s(s) == IF s = <<>> THEN <<>> ELSE Insert(Head(s), SortFloat64s(Tail(s)))

(* ------------------------------ input domain --------------------------- *)
\* the two tasks the code names, and one it does not
Tasks == {"classification", "regression", "clustering"}

\* all sequences of length n over S
SeqN(S, n) == [1..n -> S]

Rows == SeqN({Float(v) : v \in FeatureValues}, Cardinality(Columns))
Labels(task) == {Float(v) : v \in IF task = "classification" THEN ClassLabels ELSE Targets}

\* a row with its label, and the order in which a training set lists them
Examples(task) == Rows \X Labels(task)

RECURSIVE LexLess(_, _)
LexLess(s, t) ==
    /\ s # <<>>
    /\ \/ Head(s) < Head(t)
       \/ Head(s) = Head(t) /\ LexLess(Tail(s), Tail(t))

Before(e, f) == LexLess(e[1] \o <<e[2]>>, f[1] \o <<f[2]>>)

First(S) == CHOOSE e \in S : \A f \in S \ {e} : Before(e, f)

RECURSIVE Listed(_)
Listed(S) == IF S = {} THEN <<>> ELSE <<First(S)>> \o Listed(S \ {First(S)})

Dataset(l) == [X |-> [k \in 1..Len(l) |-> l[k][1]], y |-> [k \in 1..Len(l) |-> l[k][2]]]

\* The training sets: 1..MaxRows distinct examples, listed in ascending
\* order.  Training reads the data only through bootstrapSample, which
\* draws with replacement in any order, so every sample that a dataset with
\* repeated or reordered rows can yield is also drawn from one of these.
Datasets(task) ==
    {Dataset(Listed(S)) : S \in {S1 \in SUBSET Examples(task) : Cardinality(S1) \in 1..MaxRows}}

\* a training set whose label vector lacks the label of the last row
Truncated(d) == [X |-> d.X, y |-> SubSeq(d.y, 1, Len(d.y) - 1)]

\* the arguments X, y of TrainRandomForest: the training sets, and those of
\* 2..MaxTruncated rows with a label missing
Inputs(task) ==
    Datasets(task) \cup {Truncated(d) : d \in {d1 \in Datasets(task) : Len(d1.X) \in 2..MaxTruncated}}

\* the samples PredictRandomForest is called with: the rows of the training
\* width, one narrower and one wider
Samples == Rows \cup {<<Float(0)>>, [k \in 1..(Cardinality(Columns) + 1) |-> Float(0)]}

\* and the rows of the training set m
SamplesFor(m) == Samples \cup Range(m)

\* the rows <<v[1]>>, <<v[2]>>, ... of a training set with a single feature
Single(v) == [k \in 1..Len(v) |-> <<Float(v[k])>>]

\* the float64 of every element of v
Floats(v) == [k \in 1..Len(v) |-> Float(v[k])]

\* a classification run on a single feature: six rows, five trees
ScenarioA ==
    [task |-> "classification",
     X |-> Single(<<0, 1, 1, 0, 1, 0>>), y |-> Floats(<<0, 1, 1, 1, 0, 1>>),
     numTrees |-> 5, maxDepth |-> 3, maxFeatures |-> 1]

\* a regression run on a single feature: four rows, one tree
ScenarioB ==
    [task |-> "regression",
     X |-> Single(<<1, 2, 3, 4>>), y |-> Floats(<<1, 2, 3, 4>>),
     numTrees |-> 1, maxDepth |-> 2, maxFeatures |-> 1]

Scenarios == {ScenarioA, ScenarioB}

(* ----------------------------- DecisionTree ---------------------------- *)
\* VoteStep with the assignment to majorityPrediction left out
VoteStepKeepsPrediction(best, prediction, count) ==
    IF count > best[2] THEN <<best[1], count>> ELSE best

\* one iteration of "for prediction, count := range counts": best is
\* <<majorityPrediction, maxCount>>
VoteStep(best, prediction, count) ==
    IF count > best[2] THEN <<prediction, count>> ELSE best

\* the loop over the keys of counts in the order o
RECURSIVE VoteLoop(_, _, _)
VoteLoop(predictions, o, best) ==
    IF o = <<>> THEN best
    ELSE VoteLoop(predictions, Tail(o), VoteStep(best, Head(o), Count(predictions, Head(o))))

\* majorityVote when the map is iterated in order o
majorityVote(predictions, o) == VoteLoop(predictions, o, <<Float(0), 0>>)[1]

\* the values majorityVote can return: Go leaves the iteration order of a
\* map unspecified and the runtime randomises it
majorityVoteResults(predictions) ==
    {majorityVote(predictions, o) : o \in Orders(Range(predictions))}

RECURSIVE Sum(_, _)
Sum(v, acc) == IF v = <<>> THEN acc ELSE Sum(Tail(v), FAdd(acc, Head(v)))

\* mean with the division by len(y) left out
meanUndivided(v) == Sum(v, Float(0))

mean(v) == FDiv(Sum(v, Float(0)), Float(Len(v)))

\* the values getLeafPrediction can return
getLeafPrediction(task, v) ==
    IF task = "classification" THEN majorityVoteResults(v) ELSE {mean(v)}

isSameClass(v) == \A k \in 2..Len(v) : v[k] = v[1]

\* the inner loop starts at j := 1, the second column
isSameValue(m) == \A k \in 2..Len(m) : \A j \in 2..Len(m[k]) : m[k][j] = m[1][j]

\* the classes in ascending order; with at most two classes present the sum
\* of giniImpurity does not depend on the order in which the map is iterated
RECURSIVE Ascending(_)
Ascending(keys) ==
    IF keys = {} THEN <<>>
    ELSE <<CHOOSE k \in keys : \A k2 \in keys : k <= k2>>
         \o Ascending(keys \ {CHOOSE k \in keys : \A k2 \in keys : k <= k2})

GiniTerm(prob) == FMul(prob, FSub(Float(1), prob))

RECURSIVE GiniLoop(_, _, _)
GiniLoop(v, o, impurity) ==
    IF o = <<>> THEN impurity
    ELSE GiniLoop(v, Tail(o),
             FAdd(impurity, GiniTerm(FDiv(Float(Count(v, Head(o))), Float(Len(v))))))

giniImpurity(v) == GiniLoop(v, Ascending(Range(v)), Float(0))

\* math.Pow(d, 2)
Square(d) == FMul(d, d)

RECURSIVE MseLoop(_, _, _)
MseLoop(v, m, mse) ==
    IF v = <<>> THEN mse
    ELSE MseLoop(Tail(v), m, FAdd(mse, Square(FSub(Head(v), m))))

meanSquaredError(v) == FDiv(MseLoop(v, mean(v), Float(0)), Float(Len(v)))

\* -((leftSize/totalSize)*left + (rightSize/totalSize)*right)
Weighted(leftSize, rightSize, totalSize, left, right) ==
    FNeg(FAdd(FMul(FDiv(leftSize, totalSize), left), FMul(FDiv(rightSize, totalSize), right)))

Impurity(task, v) ==
    IF task = "classification" THEN giniImpurity(v) ELSE meanSquaredError(v)

calculateScore(task, leftY, rightY) ==
    IF task \in {"classification", "regression"}
    THEN Weighted(Float(Len(leftY)), Float(Len(rightY)),
                  FAdd(Float(Len(leftY)), Float(Len(rightY))),
                  Impurity(task, leftY), Impurity(task, rightY))
    ELSE NaN

\* the indices k with m[k][featureIndex] < threshold, and the others
LeftIdx(m, featureIndex, threshold) ==
    {k \in 1..Len(m) : FLt(m[k][featureIndex + 1], threshold)}

\* RightIdx with "threshold < X[i][featureIndex]" for the else
RightIdxAbove(m, featureIndex, threshold) ==
    {k \in 1..Len(m) : FLt(threshold, m[k][featureIndex + 1])}

RightIdx(m, featureIndex, threshold) ==
    {k \in 1..Len(m) : ~FLt(m[k][featureIndex + 1], threshold)}

splitData(m, v, featureIndex, threshold) ==
    [leftX |-> Pick(m, LeftIdx(m, featureIndex, threshold), 1),
     leftY |-> Pick(v, LeftIdx(m, featureIndex, threshold), 1),
     rightX |-> Pick(m, RightIdx(m, featureIndex, threshold), 1),
     rightY |-> Pick(v, RightIdx(m, featureIndex, threshold), 1)]

\* the score of splitting at threshold
ScoreAt(task, m, v, featureIndex, threshold) ==
    calculateScore(task, Pick(v, LeftIdx(m, featureIndex, threshold), 1),
                         Pick(v, RightIdx(m, featureIndex, threshold), 1))

\* "if score > bestScore": best is <<bestThreshold, bestScore>>
ThresholdStep(best, threshold, score) ==
    IF FGt(score, best[2]) THEN <<threshold, score>> ELSE best

\* the loop over splitPoints
RECURSIVE ThresholdLoop(_, _, _, _, _, _)
ThresholdLoop(task, m, v, featureIndex, splitPoints, best) ==
    IF splitPoints = <<>> THEN best
    ELSE ThresholdLoop(task, m, v, featureIndex, Tail(splitPoints),
             ThresholdStep(best, Head(splitPoints),
                           ScoreAt(task, m, v, featureIndex, Head(splitPoints))))

Midpoints(featureValues) ==
    [k \in 1..(Len(featureValues) - 1) |->
        FDiv(FAdd(featureValues[k], featureValues[k + 1]), Float(2))]

SplitPoints(m, featureIndex) ==
    Midpoints(SortFloat64s([k \in 1..Len(m) |-> m[k][featureIndex + 1]]))

\* returns <<bestThreshold, bestScore>>
findBestSplitForFeature(task, m, v, featureIndex) ==
    ThresholdLoop(task, m, v, featureIndex, SplitPoints(m, featureIndex), <<Float(0), NegInf>>)

\* FeatureStep with "if score >= bestScore"
FeatureStepOrEqual(best, featureIndex, ts) ==
    IF FGt(ts[2], best[3]) \/ ts[2] = best[3] THEN <<featureIndex, ts[1], ts[2]>> ELSE best

\* "if score > bestScore": best is <<bestFeatureIndex, bestThreshold, bestScore>>
FeatureStep(best, featureIndex, ts) ==
    IF FGt(ts[2], best[3]) THEN <<featureIndex, ts[1], ts[2]>> ELSE best

\* the loop over selectedFeatures
RECURSIVE FeatureLoop(_, _, _, _, _)
FeatureLoop(task, m, v, selectedFeatures, best) ==
    IF selectedFeatures = <<>> THEN best
    ELSE FeatureLoop(task, m, v, Tail(selectedFeatures),
             FeatureStep(best, Head(selectedFeatures),
                         findBestSplitForFeature(task, m, v, Head(selectedFeatures))))

\* returns <<bestFeatureIndex, bestThreshold, bestScore>>
findBestSplit(task, m, v, selectedFeatures) ==
    FeatureLoop(task, m, v, selectedFeatures, <<-1, PosInf, NegInf>>)

(* ------------------------------ RandomForest --------------------------- *)
\* the nil pointer; a non-nil pointer is a positive index
Nil == 0

\* no call has returned to the running activation
NoRet == -1

\* NewRandomForest making one element too many
NewRandomForestLonger(numTrees, maxDepth, maxFeatures, task) ==
    [Trees |-> [k \in 1..(numTrees + 1) |-> Nil], NumTrees |-> numTrees,
     MaxDepth |-> maxDepth, MaxFeatures |-> maxFeatures, Task |-> task]

NewRandomForest(numTrees, maxDepth, maxFeatures, task) ==
    [Trees |-> [k \in 1..numTrees |-> Nil], NumTrees |-> numTrees,
     MaxDepth |-> maxDepth, MaxFeatures |-> maxFeatures, Task |-> task]

NewDecisionTree(maxDepth, maxFeatures, task) ==
    [Root |-> Nil, MaxDepth |-> maxDepth, MaxFeatures |-> maxFeatures, Task |-> task]

\* Draws of a loop that stops one iteration early
DrawsShort(numSamples) == SeqN(0..(numSamples - 1), numSamples - 1)

\* the indices are drawn in ascending order
Ordered(index) == \A k \in 1..(Len(index) - 1) : index[k] <= index[k + 1]

\* the results the calls of rand.Intn(numSamples) in bootstrapSample can
\* have; of a training set of more than MaxShuffled rows only the draws in
\* ascending order are followed
Draws(numSamples) ==
    IF numSamples <= MaxShuffled
    THEN SeqN(0..(numSamples - 1), numSamples)
    ELSE {index \in SeqN(0..(numSamples - 1), numSamples) : Ordered(index)}

\* bootstrapSample when the calls of rand.Intn return index
bootstrapSample(m, v, index) ==
    [X |-> [k \in 1..Len(index) |-> m[index[k] + 1]],
     y |-> [k \in 1..Len(index) |-> v[index[k] + 1]]]

\* bootstrapSample with the sample written over the slices it reads
bootstrapArgsOverwritten(m, v, index) ==
    [X |-> [k \in 1..Len(index) |-> m[index[k] + 1]],
     y |-> [k \in 1..Len(index) |-> v[index[k] + 1]]]

\* the slices X and y after bootstrapSample: the loop assigns to XSample[i]
\* and ySample[i] only, which make allocated
bootstrapArgs(m, v, index) == [X |-> m, y |-> v]

\* selectFeatures with a slice one element short of MaxFeatures
selectFeaturesShort(maxFeatures, numFeatures) == SeqN(0..(numFeatures - 1), maxFeatures - 1)

\* the results selectFeatures can have
selectFeatures(maxFeatures, numFeatures) == SeqN(0..(numFeatures - 1), maxFeatures)

\* an activation of buildTree: its arguments, where it stands ("start",
\* "left": in the first recursive call, "right": in the second) and its locals
Frame(fX, fy, depth) ==
    [X |-> fX, y |-> fy, depth |-> depth, pc |-> "start",
     selectedFeatures |-> <<>>, bestFeatureIndex |-> 0, bestThreshold |-> 0,
     rightX |-> <<>>, rightY |-> <<>>, leftNode |-> Nil]

Top(s) == s[Len(s)]
Pop(s) == SubSeq(s, 1, Len(s) - 1)

\* the call that has just returned
Returned(f, node) == <<[X |-> f.X, y |-> f.y, depth |-> f.depth, pc |-> f.pc,
                        selectedFeatures |-> f.selectedFeatures, node |-> node]>>

\* the program after NewRandomForest, with the training set the caller holds
Start(X, y, numTrees, maxDepth, maxFeatures, task) ==
    /\ dataX = X
    /\ dataY = y
    /\ rf = NewRandomForest(numTrees, maxDepth, maxFeatures, task)
    /\ trees = <<>>
    /\ heap = <<>>
    /\ last = <<>>
    /\ iTree = 0
    /\ XSample = <<>>
    /\ ySample = <<>>
    /\ stack = <<>>
    /\ ret = NoRet
    /\ status = "constructed"
    /\ err = ""
    /\ call = <<>>
    /\ randUsers = {}
    /\ leafRows = <<>>

Init ==
    \/ \E task \in Tasks :
         \E d \in Inputs(task), numTrees \in 0..MaxTrees, maxDepth \in 0..MaxDepthBound,
            maxFeatures \in 0..(Cardinality(Columns) + 1) :
           /\ numTrees * Len(d.X) <= MaxDraws
           /\ numTrees * Len(d.X) * maxFeatures <= MaxSelect
           /\ Start(d.X, d.y, numTrees, maxDepth, maxFeatures, task)
    \/ \E s \in Scenarios :
         Start(s.X, s.y, s.numTrees, s.maxDepth, s.maxFeatures, s.task)

\* a run-time panic ends the program
Panic(msg) ==
    /\ status' = "panic"
    /\ err' = msg
    /\ last' = <<>>
    /\ UNCHANGED <<dataX, dataY, rf, trees, heap, iTree, XSample, ySample, stack, ret, call, leafRows>>

\* TrainRandomForest is entered
TrainRandomForest ==
    /\ status = "constructed"
    /\ status' = "training"
    /\ iTree' = 0
    /\ last' = <<>>
    /\ UNCHANGED <<dataX, dataY, rf, trees, heap, XSample, ySample, stack, ret, err, call, randUsers, leafRows>>

\* the loop body from the return of bootstrapSample up to the call of
\* buildTree on the sample; args holds the slices X and y as the call left them
StartTree(sample, args) ==
    /\ XSample' = sample.X
    /\ ySample' = sample.y
    /\ dataX' = args.X
    /\ dataY' = args.y
    /\ trees' = Append(trees, NewDecisionTree(rf.MaxDepth, rf.MaxFeatures, rf.Task))
    /\ stack' = <<Frame(sample.X, sample.y, rf.MaxDepth)>>
    /\ last' = <<>>
    /\ UNCHANGED <<rf, heap, iTree, ret, status, err, call, leafRows>>

\* bootstrapSample reads y[index] for every index drawn
Bootstrap(index) ==
    IF \E k \in 1..Len(index) : index[k] >= Len(dataY)
    THEN Panic("index out of range: y[index]")
    ELSE StartTree(bootstrapSample(dataX, dataY, index), bootstrapArgs(dataX, dataY, index))

TrainLoop ==
    /\ status = "training"
    /\ stack = <<>>
    /\ ret = NoRet
    /\ iTree < rf.NumTrees
    /\ \E index \in Draws(Len(dataX)) : Bootstrap(index)
    /\ randUsers' = randUsers \cup {iTree}

\* buildTree has returned: dt.Root = ..., rf.Trees[i] = tree, i++
TrainStore ==
    /\ status = "training"
    /\ stack = <<>>
    /\ ret # NoRet
    /\ trees' = [trees EXCEPT ![Len(trees)].Root = ret]
    /\ rf' = [rf EXCEPT !.Trees[iTree + 1] = Len(trees)]
    /\ iTree' = iTree + 1
    /\ ret' = NoRet
    /\ XSample' = <<>>
    /\ ySample' = <<>>
    /\ last' = <<>>
    /\ leafRows' = [k \in 1..Len(heap) |-> <<>>]
    /\ UNCHANGED <<dataX, dataY, heap, stack, status, err, call, randUsers>>

\* the loop ends and TrainRandomForest returns
TrainReturn ==
    /\ status = "training"
    /\ stack = <<>>
    /\ ret = NoRet
    /\ iTree = rf.NumTrees
    /\ status' = "trained"
    /\ last' = <<>>
    /\ UNCHANGED <<dataX, dataY, rf, trees, heap, iTree, XSample, ySample, stack, ret, err, call, randUsers, leafRows>>

(* -------------------------------- buildTree ---------------------------- *)
Leaf(prediction) ==
    [FeatureIndex |-> 0, Threshold |-> Float(0), Prediction |-> prediction,
     Left |-> Nil, Right |-> Nil]

Internal(featureIndex, threshold, left, right) ==
    [FeatureIndex |-> featureIndex, Threshold |-> threshold, Prediction |-> Float(0),
     Left |-> left, Right |-> right]

\* DepthExhausted testing for a depth below zero
DepthBelowZero(depth) == depth < 0

DepthExhausted(depth) == depth = 0

IsLeafCase(f) == DepthExhausted(f.depth) \/ isSameClass(f.y) \/ isSameValue(f.X)

ChildDepth(depth) == depth - 1

Running == status = "training" /\ stack # <<>>

\* "if len(y) == 0 { return nil }"
BuildEmpty ==
    /\ Running
    /\ Top(stack).pc = "start"
    /\ Top(stack).y = <<>>
    /\ stack' = Pop(stack)
    /\ ret' = Nil
    /\ last' = Returned(Top(stack), Nil)
    /\ UNCHANGED <<dataX, dataY, rf, trees, heap, iTree, XSample, ySample, status, err, call, randUsers, leafRows>>

\* "return &Node{Prediction: dt.getLeafPrediction(y)}"
BuildLeaf ==
    /\ Running
    /\ Top(stack).pc = "start"
    /\ Top(stack).y # <<>>
    /\ IsLeafCase(Top(stack))
    /\ \E prediction \in getLeafPrediction(rf.Task, Top(stack).y) :
         heap' = Append(heap, Leaf(prediction))
    /\ stack' = Pop(stack)
    /\ ret' = Len(heap) + 1
    /\ last' = Returned(Top(stack), Len(heap) + 1)
    /\ leafRows' = Append(leafRows, Top(stack).X)
    /\ UNCHANGED <<dataX, dataY, rf, trees, iTree, XSample, ySample, status, err, call, randUsers>>

\* the first recursive call, on the left part d of the split
Descend(selectedFeatures, best, d) ==
    /\ stack' = Pop(stack) \o
                <<[Top(stack) EXCEPT !.pc = "left",
                                     !.selectedFeatures = selectedFeatures,
                                     !.bestFeatureIndex = best[1],
                                     !.bestThreshold = best[2],
                                     !.rightX = d.rightX,
                                     !.rightY = d.rightY],
                  Frame(d.leftX, d.leftY, ChildDepth(Top(stack).depth))>>
    /\ last' = <<>>
    /\ UNCHANGED <<dataX, dataY, rf, trees, heap, iTree, XSample, ySample, ret, status, err, call, leafRows>>

\* splitData indexes every row with bestFeatureIndex
Split(selectedFeatures, best) ==
    IF best[1] < 0
    THEN Panic("index out of range [-1]")
    ELSE Descend(selectedFeatures, best, splitData(Top(stack).X, Top(stack).y, best[1], best[2]))

\* selectFeatures, findBestSplit, splitData and the call for the left child
BuildSplit ==
    /\ Running
    /\ Top(stack).pc = "start"
    /\ Top(stack).y # <<>>
    /\ ~IsLeafCase(Top(stack))
    /\ \E selectedFeatures \in selectFeatures(rf.MaxFeatures, Len(Top(stack).X[1])) :
         Split(selectedFeatures,
               findBestSplit(rf.Task, Top(stack).X, Top(stack).y, selectedFeatures))
    /\ randUsers' = randUsers \cup {iTree}

\* the left child has returned: the call for the right child
BuildRight ==
    /\ Running
    /\ Top(stack).pc = "left"
    /\ ret # NoRet
    /\ stack' = Pop(stack) \o
                <<[Top(stack) EXCEPT !.pc = "right", !.leftNode = ret],
                  Frame(Top(stack).rightX, Top(stack).rightY, ChildDepth(Top(stack).depth))>>
    /\ ret' = NoRet
    /\ last' = <<>>
    /\ UNCHANGED <<dataX, dataY, rf, trees, heap, iTree, XSample, ySample, status, err, call, randUsers, leafRows>>

\* the right child has returned: "return &Node{FeatureIndex: ..., Left: ..., Right: ...}"
BuildNode ==
    /\ Running
    /\ Top(stack).pc = "right"
    /\ ret # NoRet
    /\ heap' = Append(heap, Internal(Top(stack).bestFeatureIndex, Top(stack).bestThreshold,
                                     Top(stack).leftNode, ret))
    /\ stack' = Pop(stack)
    /\ ret' = Len(heap) + 1
    /\ last' = Returned(Top(stack), Len(heap) + 1)
    /\ leafRows' = Append(leafRows, <<>>)
    /\ UNCHANGED <<dataX, dataY, rf, trees, iTree, XSample, ySample, status, err, call, randUsers>>

(* --------------------------------- predict ----------------------------- *)
\* the test of traverseTree: "node.Left == nil && node.Right == nil"
IsLeaf(n) == n.Left = Nil /\ n.Right = Nil

\* <<"ok", value, the node the value is read from>>, or the run-time panic
\* the call ends in
RECURSIVE traverseTree(_, _, _)
traverseTree(h, sample, node) ==
    IF node = Nil THEN <<"nil pointer dereference", 0, Nil>>
    ELSE IF IsLeaf(h[node]) THEN <<"ok", h[node].Prediction, node>>
    ELSE IF h[node].FeatureIndex >= Len(sample)
         THEN <<"index out of range: sample[node.FeatureIndex]", 0, Nil>>
    ELSE traverseTree(h, sample,
             IF FLt(sample[h[node].FeatureIndex + 1], h[node].Threshold)
             THEN h[node].Left ELSE h[node].Right)

\* tree is a *DecisionTree
PredictDecisionTree(ts, h, tree, sample) ==
    IF tree = Nil THEN <<"nil pointer dereference", 0, Nil>>
    ELSE traverseTree(h, sample, ts[tree].Root)

\* rf.majorityVote: best is <<majorityPrediction, maxCount>>
RECURSIVE rfVoteLoop(_, _, _)
rfVoteLoop(predictions, o, best) ==
    IF o = <<>> THEN best
    ELSE rfVoteLoop(predictions, Tail(o),
             IF Count(predictions, Head(o)) > best[2]
             THEN <<Head(o), Count(predictions, Head(o))>> ELSE best)

\* the values rf.majorityVote can return, one for each iteration order of counts
rfMajorityVote(predictions) ==
    {rfVoteLoop(predictions, o, <<Float(0), 0>>)[1] : o \in Orders(Range(predictions))}

\* rf.mean with the division by len(predictions) left out
rfMeanUndivided(predictions) == Sum(predictions, Float(0))

\* rf.mean
rfMean(predictions) == FDiv(Sum(predictions, Float(0)), Float(Len(predictions)))

\* the values PredictRandomForest can return from the trees' predictions
Aggregate(task, predictions) ==
    IF task = "classification" THEN rfMajorityVote(predictions)
    ELSE IF task = "regression" THEN {rfMean(predictions)}
    ELSE {NaN}

Failed(results) == {k \in 1..Len(results) : results[k][1] # "ok"}

\* Return with the value kept in a Node allocated for it
ReturnStoring(sample, value) ==
    /\ call' = <<[sample |-> sample, value |-> value]>>
    /\ last' = <<>>
    /\ heap' = Append(heap, Leaf(value))
    /\ UNCHANGED <<dataX, dataY, rf, trees, iTree, XSample, ySample, stack, ret, status, err, leafRows>>

Return(sample, value) ==
    /\ call' = <<[sample |-> sample, value |-> value]>>
    /\ last' = <<>>
    /\ UNCHANGED <<dataX, dataY, rf, trees, heap, iTree, XSample, ySample, stack, ret, status, err, leafRows>>

\* results[k] is what rf.Trees[k].PredictDecisionTree(sample) ends in
PredictWith(sample, results) ==
    IF Failed(results) # {}
    THEN Panic(results[CHOOSE k \in Failed(results) : \A j \in Failed(results) : k <= j][1])
    ELSE \E value \in Aggregate(rf.Task, [k \in 1..Len(results) |-> results[k][2]]) :
           Return(sample, value)

\* PredictRandomForest(sample), before or after training
Predict ==
    /\ status \in {"constructed", "trained"}
    /\ \E sample \in SamplesFor(dataX) :
         PredictWith(sample,
             [k \in 1..Len(rf.Trees) |-> PredictDecisionTree(trees, heap, rf.Trees[k], sample)])
    /\ UNCHANGED randUsers

Next ==
    \/ TrainRandomForest
    \/ TrainLoop
    \/ TrainStore
    \/ TrainReturn
    \/ BuildEmpty
    \/ BuildLeaf
    \/ BuildSplit
    \/ BuildRight
    \/ BuildNode
    \/ Predict

Spec == Init /\ [][Next]_vars

(* ------------------------------- properties ---------------------------- *)
\* the nodes reachable from node
RECURSIVE Nodes(_, _)
Nodes(h, node) ==
    IF node = Nil THEN {}
    ELSE {node} \cup Nodes(h, h[node].Left) \cup Nodes(h, h[node].Right)

\* the Roots of the trees of the forest
Roots == {trees[t].Root : t \in 1..Len(trees)}

\* the greatest number of edges from node down to a leaf
RECURSIVE Height(_, _)
Height(h, node) ==
    IF node = Nil \/ IsLeaf(h[node]) THEN 0
    ELSE IF Height(h, h[node].Left) > Height(h, h[node].Right)
         THEN 1 + Height(h, h[node].Left)
         ELSE 1 + Height(h, h[node].Right)

\* x <= b of float64
FLe(x, b) == ~IsNaN(x) /\ ~IsNaN(b) /\ x <= b

AllSame(s) == \A j, k \in 1..Len(s) : s[j] = s[k]

\* the call c searched the split over its selectedFeatures
Searched(c) == c.pc = "right"

\* some threshold of some drawn feature leaves rows on both sides
Viable(c) ==
    \E k \in 1..Len(c.selectedFeatures) :
      \E t \in Range(SplitPoints(c.X, c.selectedFeatures[k])) :
        /\ LeftIdx(c.X, c.selectedFeatures[k], t) # {}
        /\ RightIdx(c.X, c.selectedFeatures[k], t) # {}

\* the call c returned a leaf
ReturnedLeaf(c) == c.node # Nil /\ c.pc = "start"

\* C1: after TrainRandomForest every node reachable from every tree's Root
\* is a leaf (no children) or has both a Left and a Right child, and no Root
\* is absent.
C1_BothChildren ==
    status = "trained" =>
      \A root \in Roots :
        /\ root # Nil
        /\ \A n \in Nodes(heap, root) :
             \/ IsLeaf(heap[n])
             \/ heap[n].Left # Nil /\ heap[n].Right # Nil

\* C2: a buildTree call whose split search finds no viable split (no drawn
\* feature, or every threshold of every drawn feature leaves a side empty)
\* returns a leaf, and training never ends in a run-time panic.
C2_NoViableSplitIsLeaf ==
    /\ ~(status = "panic" /\ stack # <<>>)
    /\ \A k \in 1..Len(last) :
         (Searched(last[k]) /\ ~Viable(last[k])) =>
           (last[k].node # Nil /\ IsLeaf(heap[last[k].node]))

\* C3: a buildTree call with an empty label vector y does not return, neither
\* a node nor nil: it fails with EmptyPartitionError.
C3_EmptyPartitionFails == \A k \in 1..Len(last) : last[k].y # <<>>

\* p is a most frequent element of v
MostFrequent(v, p) == p \in Range(v) /\ \A e \in Range(v) : Count(v, e) <= Count(v, p)

\* the float64 sum of v, added from the left
RECURSIVE Total(_)
Total(v) == IF v = <<>> THEN Float(0) ELSE FAdd(Total(SubSeq(v, 1, Len(v) - 1)), v[Len(v)])

\* C4: a buildTree call on a non-empty partition with depth 0, identical
\* labels or identical rows returns a leaf, a node without children, whose
\* Prediction is a most frequent label of y (classification) or the sum of
\* y divided by its length (regression).
C4_LeafRule ==
    \A k \in 1..Len(last) :
      (/\ last[k].y # <<>>
       /\ last[k].depth = 0 \/ AllSame(last[k].y) \/ AllSame(last[k].X)) =>
        /\ last[k].node # Nil
        /\ heap[last[k].node].Left = Nil
        /\ heap[last[k].node].Right = Nil
        /\ rf.Task = "classification" =>
             MostFrequent(last[k].y, heap[last[k].node].Prediction)
        /\ rf.Task = "regression" =>
             heap[last[k].node].Prediction = FDiv(Total(last[k].y), Float(Len(last[k].y)))

\* C4 is reached: a regression leaf built at depth 0 from two different targets
C4_Witness ==
    /\ rf.Task = "regression"
    /\ last # <<>>
    /\ ReturnedLeaf(last[1])
    /\ last[1].depth = 0
    /\ ~AllSame(last[1].y)
    /\ ~AllSame(last[1].X)

\* C5: no path from a tree's Root down to a leaf has more than MaxDepth
\* edges, neither has a path from any node built so far, and the calls of
\* buildTree never nest deeper than MaxDepth below the call for the Root.
C5_DepthBound ==
    /\ \A node \in Roots \cup (1..Len(heap)) : Height(heap, node) <= rf.MaxDepth
    /\ Len(stack) <= rf.MaxDepth + 1

\* C5 is reached: a trained tree with a path of MaxDepth = MaxDepthBound edges
C5_Witness ==
    /\ status = "trained"
    /\ rf.MaxDepth = MaxDepthBound
    /\ \E root \in Roots : Height(heap, root) = rf.MaxDepth

\* C6: the Prediction of a classification leaf is one of the labels of the
\* partition y the leaf is built from.
C6_LabelContainment ==
    rf.Task = "classification" =>
      \A k \in 1..Len(last) :
        ReturnedLeaf(last[k]) => heap[last[k].node].Prediction \in Range(last[k].y)

\* C6 is reached: a classification leaf built from a partition with two labels
C6_Witness ==
    /\ rf.Task = "classification"
    /\ last # <<>>
    /\ ReturnedLeaf(last[1])
    /\ Cardinality(Range(last[1].y)) = 2

\* C7: the Prediction of a regression leaf lies between the least and the
\* greatest target of the partition y the leaf is built from.
C7_RangeContainment ==
    rf.Task = "regression" =>
      \A k \in 1..Len(last) :
        ReturnedLeaf(last[k]) =>
          /\ \E e \in Range(last[k].y) : FLe(e, heap[last[k].node].Prediction)
          /\ \E e \in Range(last[k].y) : FLe(heap[last[k].node].Prediction, e)

\* C8: training is a function of its inputs and of the results of rand.Intn:
\* the steps that draw from rand are TrainLoop and BuildSplit, so whenever a
\* leaf is about to be built exactly one Prediction is possible for it.
C8_Deterministic ==
    (/\ Running
     /\ Top(stack).pc = "start"
     /\ Top(stack).y # <<>>
     /\ IsLeafCase(Top(stack))) =>
       Cardinality(getLeafPrediction(rf.Task, Top(stack).y)) = 1

\* C9: two successive calls of PredictRandomForest with the same sample on
\* the unchanged trained forest return the same value.
C9_Idempotent ==
    [][(/\ status = "trained"
        /\ call # <<>>
        /\ call' # <<>>
        /\ call'[1].sample = call[1].sample
        /\ <<rf, trees, heap>>' = <<rf, trees, heap>>) =>
         call'[1].value = call[1].value]_vars

\* C10: while a tree is built, the bootstrap sample handed to its build has
\* len(X) rows and len(X) labels, each a row of X at an index in [0, len(X))
\* with the label of y at that index.
C10_BaggingSize ==
    (status = "training" /\ (stack # <<>> \/ ret # NoRet)) =>
      /\ Len(XSample) = Len(dataX)
      /\ Len(ySample) = Len(dataX)
      /\ \A k \in 1..Len(XSample) :
           \E index \in 0..(Len(dataX) - 1) :
             XSample[k] = dataX[index + 1] /\ ySample[k] = dataY[index + 1]
      /\ stack # <<>> => (stack[1].X = XSample /\ stack[1].y = ySample)

\* C10 is reached: the second tree's build runs on a sample that repeats a row
C10_Witness ==
    /\ status = "training"
    /\ stack # <<>>
    /\ iTree = 1
    /\ Len(dataX) = 2
    /\ dataX[1] # dataX[2]
    /\ XSample[1] = XSample[2]

\* the hyperparameters Train has to accept
ValidConfig ==
    /\ rf.NumTrees > 0
    /\ rf.MaxDepth >= 0
    /\ rf.MaxFeatures >= 1
    /\ rf.MaxFeatures <= Len(dataX[1])

\* C11: with numTrees <= 0, maxDepth < 0, maxFeatures < 1 or maxFeatures >
\* numFeatures, Train fails before it builds a tree: no DecisionTree is
\* allocated and TrainRandomForest does not return normally.
C11_ConfigurationError == ~ValidConfig => (trees = <<>> /\ status # "trained")

\* C12: with a label vector whose length differs from the row count, Train
\* fails with DimensionMismatchError: it builds no tree, does not return
\* normally and does not end in the run-time panic of reading a missing label.
C12_DimensionMismatch ==
    Len(dataY) # Len(dataX) =>
      (trees = <<>> /\ status # "trained" /\ err # "index out of range: y[index]")

\* C13: on a forest not yet trained, or with zero trees, PredictRandomForest
\* fails with NotTrainedError: it neither returns a value nor panics.
C13_NotTrained ==
    [][(status = "constructed" \/ (status = "trained" /\ rf.NumTrees = 0)) =>
         (status' # "panic" /\ call' = call)]_vars

\* C14: on a trained forest PredictRandomForest returns a value only for a
\* sample as wide as the training rows, and a narrower or wider sample does
\* not end in a run-time panic either.
C14_SampleWidth ==
    [][(status = "trained" /\ rf.NumTrees > 0) =>
         /\ err' # "index out of range: sample[node.FeatureIndex]"
         /\ call' # call => Len(call'[1].sample) = Len(dataX[1])]_vars

\* C15: with a task other than classification or regression, training builds
\* nothing and does not return, prediction returns nothing, and neither ends
\* in a run-time panic.
C15_UnsupportedTask ==
    rf.Task \notin {"classification", "regression"} =>
      (trees = <<>> /\ call = <<>> /\ status \notin {"trained", "panic"})

\* the leaf value of every tree of the forest for sample
TreeValues(sample) ==
    [k \in 1..Len(rf.Trees) |-> PredictDecisionTree(trees, heap, rf.Trees[k], sample)[2]]

\* value is what the trees' values aggregate to
Aggregated(task, values, value) ==
    /\ task = "classification" => \A e \in Range(values) : Count(values, e) <= Count(values, value)
    /\ task = "regression" => value = FDiv(Total(values), Float(Len(values)))

\* C16: the value PredictRandomForest returns on a trained forest is, for
\* classification, a label no other label has more votes than among the
\* per-tree leaf values, one per tree, and for regression the sum of the
\* per-tree leaf values divided by their number.
C16_Aggregation ==
    (status = "trained" /\ call # <<>>) =>
      /\ Len(TreeValues(call[1].sample)) = rf.NumTrees
      /\ Aggregated(rf.Task, TreeValues(call[1].sample), call[1].value)

\* C16 is reached: a regression forest of two trees with different leaf values
C16_Witness ==
    /\ status = "trained"
    /\ call # <<>>
    /\ rf.Task = "regression"
    /\ rf.NumTrees = 2
    /\ TreeValues(call[1].sample)[1] # TreeValues(call[1].sample)[2]

\* the most frequent element of v that occurs first
FirstMostFrequent(v) ==
    v[CHOOSE k \in 1..Len(v) :
        /\ MostFrequent(v, v[k])
        /\ \A j \in 1..(k - 1) : ~MostFrequent(v, v[j])]

\* C17: the Prediction of a classification leaf is the most frequent label of
\* its partition y, and of several equally frequent ones the one that occurs
\* first in y.
C17_FirstInRowOrder ==
    rf.Task = "classification" =>
      \A k \in 1..Len(last) :
        ReturnedLeaf(last[k]) =>
          heap[last[k].node].Prediction = FirstMostFrequent(last[k].y)

\* C18: no two trees' builds read and write the same random stream: the
\* global rand source is drawn from by the build of one tree at most.
C18_IndependentStreams == Cardinality(randUsers) <= 1

C20_InputsUnchanged == [][dataX' = dataX /\ dataY' = dataY]_vars

\* C20 is reached: training on MaxRows rows has returned with a node of two
\* children, so the sampling, the sort of a column and the partitioning ran
C20_Witness ==
    /\ status = "trained"
    /\ Len(dataX) = MaxRows
    /\ \E n \in 1..Len(heap) : heap[n].Left # Nil /\ heap[n].Right # Nil

\* the program runs the scenario s
InScenario(s) ==
    /\ dataX = s.X
    /\ dataY = s.y
    /\ rf = [NewRandomForest(s.numTrees, s.maxDepth, s.maxFeatures, s.task) EXCEPT !.Trees = rf.Trees]

\* the values PredictRandomForest(sample) can return on the forest as it
\* stands, none if the call panics
Predictable(sample) ==
    IF \E k \in 1..Len(rf.Trees) :
         PredictDecisionTree(trees, heap, rf.Trees[k], sample)[1] # "ok"
    THEN {}
    ELSE Aggregate(rf.Task, TreeValues(sample))

PredictableLow == Predictable(<<Float(1)>>)
PredictableHigh == Predictable(<<Float(4)>>)

\* C21: in scenario B (X = [[1],[2],[3],[4]], y = [1,2,3,4], one regression
\* tree, maxDepth 2, maxFeatures 1) the forest, once its tree is stored,
\* predicts for [1] at most what it predicts for [4], and less whenever the
\* tree's bootstrap sample holds both the row [1] and the row [4].
C21_ScenarioB ==
    [][(InScenario(ScenarioB) /\ status = "training" /\ stack = <<>> /\ ret # NoRet) =>
         /\ PredictableLow' # {}
         /\ PredictableHigh' # {}
         /\ \A low \in PredictableLow', high \in PredictableHigh' :
              /\ FLe(low, high)
              /\ ({<<Float(1)>>, <<Float(4)>>} \subseteq Range(XSample)) => FLt(low, high)]_vars

\* C22: in scenario A (X = [[0],[1],[1],[0],[1],[0]], y = [0,1,1,1,0,1], five
\* classification trees, maxDepth 3, maxFeatures 1) PredictRandomForest([1])
\* on the trained forest returns the label 1.
C22_ScenarioA ==
    (InScenario(ScenarioA) /\ status = "trained" /\ call # <<>> /\ call[1].sample = <<Float(1)>>) =>
      call[1].value = Float(1)

\* C23: PredictRandomForest on a trained forest, whether it returns or
\* panics, changes no field of the forest, of a tree or of a node.
C23_PredictOnlyReads == [][status = "trained" => <<rf, trees, heap>>' = <<rf, trees, heap>>]_vars

\* C23 is reached: PredictRandomForest has returned on a trained forest of
\* MaxTrees trees that holds a node with two children
C23_Witness ==
    /\ status = "trained"
    /\ call # <<>>
    /\ rf.NumTrees = MaxTrees
    /\ \E n \in 1..Len(heap) : heap[n].Left # Nil /\ heap[n].Right # Nil

\* the (feature, threshold) pairs the search over selectedFeatures evaluates
Candidates(m, selectedFeatures) ==
    UNION {{<<selectedFeatures[k], t>> : t \in Range(SplitPoints(m, selectedFeatures[k]))} :
             k \in 1..Len(selectedFeatures)}

\* best is a candidate whose score no candidate's score exceeds
Optimal(task, m, v, selectedFeatures, best) ==
    /\ <<best[1], best[2]>> \in Candidates(m, selectedFeatures)
    /\ \A c \in Candidates(m, selectedFeatures) :
         FLe(ScoreAt(task, m, v, c[1], c[2]), ScoreAt(task, m, v, best[1], best[2]))

\* a buildTree call is about to search the split of its partition
AtSearch ==
    /\ Running
    /\ Top(stack).pc = "start"
    /\ Top(stack).y # <<>>
    /\ ~IsLeafCase(Top(stack))

\* C24: for the partition of a buildTree call and every list of drawn
\* features (at least one), findBestSplit returns a feature of the list and a
\* midpoint of two adjacent sorted values of its column whose score is >=
\* the score of every (drawn feature, midpoint) pair.
C24_SplitOptimal ==
    (AtSearch /\ rf.Task \in {"classification", "regression"}) =>
      \A selectedFeatures \in selectFeatures(rf.MaxFeatures, Len(Top(stack).X[1])) :
        selectedFeatures # <<>> =>
          Optimal(rf.Task, Top(stack).X, Top(stack).y, selectedFeatures,
                  findBestSplit(rf.Task, Top(stack).X, Top(stack).y, selectedFeatures))

\* the (feature, threshold) pairs in the order the search evaluates them:
\* the drawn features in the order of the list, the midpoints of each in
\* ascending order
RECURSIVE CandidateList(_, _)
CandidateList(m, selectedFeatures) ==
    IF selectedFeatures = <<>> THEN <<>>
    ELSE [j \in 1..Len(SplitPoints(m, Head(selectedFeatures))) |->
            <<Head(selectedFeatures), SplitPoints(m, Head(selectedFeatures))[j]>>]
         \o CandidateList(m, Tail(selectedFeatures))

\* the score of the j-th pair of the list l
ScoreOf(task, m, v, l, j) == ScoreAt(task, m, v, l[j][1], l[j][2])

\* best occurs in l before every pair whose score equals or exceeds its own
FirstOfItsScore(task, m, v, l, best) ==
    \E j \in 1..Len(l) :
      /\ l[j] = best
      /\ \A i \in 1..(j - 1) : ~FLe(ScoreAt(task, m, v, best[1], best[2]), ScoreOf(task, m, v, l, i))

\* two different pairs of l have the score of best
Tied(task, m, v, l, best) ==
    \E i, j \in 1..Len(l) :
      /\ l[i] # l[j]
      /\ ScoreOf(task, m, v, l, i) = ScoreAt(task, m, v, best[1], best[2])
      /\ ScoreOf(task, m, v, l, j) = ScoreAt(task, m, v, best[1], best[2])

\* the activations of buildTree that have searched their split
SearchedFrames == {k \in 1..Len(stack) : stack[k].pc # "start"}

\* C25: the (feature, threshold) pair a buildTree call got from findBestSplit
\* is, among the pairs evaluated, the first with its score: no pair evaluated
\* before it has an equal or a greater score.
C25_FirstCandidateWins ==
    \A k \in SearchedFrames :
      FirstOfItsScore(rf.Task, stack[k].X, stack[k].y,
                      CandidateList(stack[k].X, stack[k].selectedFeatures),
                      <<stack[k].bestFeatureIndex, stack[k].bestThreshold>>)

\* C25 is reached: a call has split on a pair whose score another pair, of
\* another feature or threshold, has too
C25_Witness ==
    \E k \in SearchedFrames :
      Tied(rf.Task, stack[k].X, stack[k].y,
           CandidateList(stack[k].X, stack[k].selectedFeatures),
           <<stack[k].bestFeatureIndex, stack[k].bestThreshold>>)

\* C26: with maxFeatures >= 1, a buildTree call with depth > 0, labels not
\* all identical and rows not all identical (in whatever column they differ,
\* the first included) searches a split, and when some threshold of a drawn feature leaves rows on
\* both sides it returns a node with a Left and a Right child.
C26_IdenticalRowsOnly ==
    \A k \in 1..Len(last) :
      (/\ rf.MaxFeatures >= 1
       /\ last[k].depth > 0
       /\ last[k].y # <<>>
       /\ ~AllSame(last[k].y)
       /\ ~AllSame(last[k].X)) =>
        /\ Searched(last[k])
        /\ Viable(last[k]) =>
             /\ last[k].node # Nil
             /\ heap[last[k].node].Left # Nil
             /\ heap[last[k].node].Right # Nil

\* selectedFeatures holds maxFeatures indices of [0, numFeatures)
Drawn(selectedFeatures, maxFeatures, numFeatures) ==
    /\ Len(selectedFeatures) = maxFeatures
    /\ \A j \in 1..Len(selectedFeatures) : selectedFeatures[j] \in 0..(numFeatures - 1)

\* C27: every buildTree call that searched a split drew exactly MaxFeatures
\* feature indices, each in [0, numFeatures), and the FeatureIndex of every
\* node with a child is a column index of the training data.
C27_FeatureSubsampling ==
    /\ \A k \in SearchedFrames :
         Drawn(stack[k].selectedFeatures, rf.MaxFeatures, Len(stack[k].X[1]))
    /\ \A k \in 1..Len(last) :
         Searched(last[k]) => Drawn(last[k].selectedFeatures, rf.MaxFeatures, Len(last[k].X[1]))
    /\ \A n \in 1..Len(heap) :
         ~IsLeaf(heap[n]) => heap[n].FeatureIndex \in 0..(Len(dataX[1]) - 1)

\* C27 is reached: a call that drew the same feature twice has returned a
\* node with a child
C27_Witness ==
    /\ last # <<>>
    /\ Searched(last[1])
    /\ Len(last[1].selectedFeatures) >= 2
    /\ last[1].selectedFeatures[1] = last[1].selectedFeatures[2]
    /\ ~IsLeaf(heap[last[1].node])

\* C28: on a training set with a label for every row, with a task the code
\* names and 1 <= maxFeatures <= numFeatures, every recursive buildTree call
\* has a smaller depth than its caller and none a depth below 0, and the
\* training does not stop inside a tree build, short of its NumTrees trees.
C28_Termination ==
    (/\ Len(dataY) = Len(dataX)
     /\ rf.Task \in {"classification", "regression"}
     /\ rf.MaxFeatures \in 1..Len(dataX[1])) =>
      /\ \A k \in 2..Len(stack) : stack[k].depth < stack[k - 1].depth
      /\ \A k \in 1..Len(stack) : stack[k].depth >= 0
      /\ ~(status = "panic" /\ stack # <<>>)

\* C29: with a task the code names and maxFeatures >= 1, findBestSplit never
\* hands buildTree the sentinel -1: no build ends in the panic of indexing a
\* row with -1, and every call that partitioned its data did so on a drawn
\* feature and a finite threshold.
C29_NoSentinel ==
    (rf.Task \in {"classification", "regression"} /\ rf.MaxFeatures >= 1) =>
      /\ err # "index out of range [-1]"
      /\ \A k \in SearchedFrames :
           /\ stack[k].bestFeatureIndex \in Range(stack[k].selectedFeatures)
           /\ ~IsNaN(stack[k].bestThreshold)
           /\ ~IsInf(stack[k].bestThreshold)

\* the k-th activation has put every row of its partition on the side on
\* which traverseTree looks for it: left iff row[FeatureIndex] < Threshold
RoutedAt(k) ==
    \A j \in 1..Len(stack[k].X) :
      IF FLt(stack[k].X[j][stack[k].bestFeatureIndex + 1], stack[k].bestThreshold)
      THEN /\ stack[k].X[j] \notin Range(stack[k].rightX)
           /\ (stack[k].pc = "left" /\ k < Len(stack)) => stack[k].X[j] \in Range(stack[k + 1].X)
      ELSE /\ stack[k].X[j] \in Range(stack[k].rightX)
           /\ (stack[k].pc = "right" /\ k < Len(stack)) => stack[k].X[j] \in Range(stack[k + 1].X)

\* the traversal from node with row ends, without a panic, at a leaf that
\* was built from a partition holding row
Lands(row, res) == res[1] = "ok" /\ row \in Range(leafRows[res[3]])

\* C30: every buildTree call sends each row of its partition to the side
\* traverseTree takes for it, and when a call returns (the call for the Root
\* on the bootstrap sample included), traversing the returned subtree with
\* any row of the call's partition ends at the leaf built from the partition
\* that holds the row, following no absent child.
C30_RoutingConsistent ==
    /\ \A k \in SearchedFrames : RoutedAt(k)
    /\ \A k \in 1..Len(last) :
         \A j \in 1..Len(last[k].X) :
           Lands(last[k].X[j], traverseTree(heap, last[k].X[j], last[k].node))

\* C30 is reached: the call for the Root has returned a tree of MaxDepthBound
\* levels of splits, one of them with a single child
C30_Witness ==
    /\ status = "training"
    /\ stack = <<>>
    /\ last # <<>>
    /\ last[1].X = XSample
    /\ Height(heap, last[1].node) = MaxDepthBound
    /\ \E n \in Nodes(heap, last[1].node) : heap[n].Left = Nil /\ heap[n].Right # Nil

====
